---------------------------- MODULE Spec2Model ----------------------------
(***************************************************************************)
(* Leader election configuration (pkg/config/leaderelection) and the      *)
(* lease-based election client it configures.                             *)
(*                                                                         *)
(* Conventions.  A time.Duration is a whole number of seconds             *)
(* (time.Second = 1).  A Go string is a sequence of one-character         *)
(* strings, so that len(s) is Len(s), "" is << >> and strings.TrimSpace   *)
(* is computed character by character.                                     *)
(***************************************************************************)
EXTENDS Integers, Sequences, FiniteSets, TLC

VARIABLES
    config,            \* the caller's configv1.LeaderElection value
    defaultNamespace,  \* argument of LeaderElectionDefaulting
    defaultName,       \* argument of LeaderElectionDefaulting
    nsFile,            \* the service account namespace file: [ok, data]
    ret,               \* the value the last function returned
    called,            \* which function produced ret
    fileRead,          \* the last call read the namespace file
    ctor,              \* per process: its call of ToConfigMapLeaderElection
    cmd,               \* the controller command: its flag, its config file
    sp,                \* the static pod fallback controller and its cluster
    lec,               \* per process: the LeaderElectionConfig it runs with
    now,               \* the clock, in seconds
    outage,            \* [start, len]: when the store is unreachable
    record,            \* the store's lease record (version 0: not found)
    net,               \* the store requests in flight, with their responses
    state,             \* per process: ElectionState
    observed,          \* per process: the version it last read or wrote
    lastRenew,         \* per process: RenewTime of its last successful renewal
    nextAttempt,       \* per process: when the next attempt is due
    reported,          \* per process: the identity last given to OnNewLeader
    cancelled,         \* per process: its context was cancelled
    alive,             \* per process: the process is running
    calls,             \* per process: how often each callback fired
    work,              \* per process: what its leader-only logic did
    hist               \* history of the run, read by the properties only

cfgVars == <<config, defaultNamespace, defaultName, nsFile, ret, called, fileRead,
            ctor, cmd, sp>>

elVars == <<lec, now, outage, record, net, state, observed, lastRenew, nextAttempt,
            reported, cancelled, alive, calls, work, hist>>

vars == <<config, defaultNamespace, defaultName, nsFile, ret, called, fileRead, ctor,
          cmd, sp,
          lec, now, outage, record, net, state, observed, lastRenew, nextAttempt,
          reported, cancelled, alive, calls, work, hist>>

-----------------------------------------------------------------------------
(* Strings *)

IsSpace(c) == c \in {" ", "\t", "\n", "\r"}

RECURSIVE TrimLeft(_)
TrimLeft(s) ==
    IF s = << >> THEN s
    ELSE IF IsSpace(Head(s)) THEN TrimLeft(Tail(s)) ELSE s

RECURSIVE TrimRight(_)
TrimRight(s) ==
    IF s = << >> THEN s
    ELSE IF IsSpace(s[Len(s)]) THEN TrimRight(SubSeq(s, 1, Len(s) - 1)) ELSE s

\* strings.TrimSpace
TrimSpace(s) == TrimRight(TrimLeft(s))

-----------------------------------------------------------------------------
(* configv1.LeaderElection and the two defaulting functions *)

\* the standard profile
DefaultLeaseDuration == 137
DefaultRenewDeadline == 107
DefaultRetryPeriod   == 26

\* the single-node profile
SNOLeaseDuration == 270
SNORenewDeadline == 240
SNORetryPeriod   == 60

\* ioutil.ReadFile of the service account namespace file, then the
\* trimmed contents when the read succeeded and they are not empty
NamespaceFromFile(ns, file) ==
    IF file.ok /\ Len(TrimSpace(file.data)) > 0 THEN TrimSpace(file.data) ELSE ns

\* whether the call reaches the ioutil.ReadFile of the namespace file
ReadsNamespaceFile(c, defNamespace) ==
    Len(c.Namespace) = 0 /\ ~(Len(defNamespace) > 0)

LeaderElectionDefaulting_FileFirst(c, defNamespace, defName, file) ==
    [c EXCEPT
        !.LeaseDuration = IF @ = 0 THEN DefaultLeaseDuration ELSE @,
        !.RenewDeadline = IF @ = 0 THEN DefaultRenewDeadline ELSE @,
        !.RetryPeriod   = IF @ = 0 THEN DefaultRetryPeriod ELSE @,
        !.Namespace     = IF Len(@) = 0
                          THEN IF Len(NamespaceFromFile(@, file)) > 0
                               THEN NamespaceFromFile(@, file)
                               ELSE defNamespace
                          ELSE @,
        !.Name          = IF Len(@) = 0 THEN defName ELSE @]

LeaderElectionDefaulting_ShortDeadline(c, defNamespace, defName, file) ==
    [c EXCEPT
        !.LeaseDuration = IF @ = 0 THEN DefaultLeaseDuration ELSE @,
        !.RenewDeadline = IF @ = 0 THEN DefaultRenewDeadline - DefaultRetryPeriod ELSE @,
        !.RetryPeriod   = IF @ = 0 THEN DefaultRetryPeriod ELSE @,
        !.Namespace     = IF Len(@) = 0
                          THEN IF Len(defNamespace) > 0 THEN defNamespace
                               ELSE NamespaceFromFile(@, file)
                          ELSE @,
        !.Name          = IF Len(@) = 0 THEN defName ELSE @]

LeaderElectionDefaulting_ShortLease(c, defNamespace, defName, file) ==
    [c EXCEPT
        !.LeaseDuration = IF @ = 0 THEN DefaultRenewDeadline ELSE @,
        !.RenewDeadline = IF @ = 0 THEN DefaultRenewDeadline ELSE @,
        !.RetryPeriod   = IF @ = 0 THEN DefaultRetryPeriod ELSE @,
        !.Namespace     = IF Len(@) = 0
                          THEN IF Len(defNamespace) > 0 THEN defNamespace
                               ELSE NamespaceFromFile(@, file)
                          ELSE @,
        !.Name          = IF Len(@) = 0 THEN defName ELSE @]

LeaderElectionDefaulting_Overwrite(c, defNamespace, defName, file) ==
    [c EXCEPT
        !.LeaseDuration = DefaultLeaseDuration,
        !.RenewDeadline = IF @ = 0 THEN DefaultRenewDeadline ELSE @,
        !.RetryPeriod   = IF @ = 0 THEN DefaultRetryPeriod ELSE @,
        !.Namespace     = IF Len(@) = 0
                          THEN IF Len(defNamespace) > 0 THEN defNamespace
                               ELSE NamespaceFromFile(@, file)
                          ELSE @,
        !.Name          = IF Len(@) = 0 THEN defName ELSE @]

CallerConfigAfter_Aliased(c, r) == r

\* the caller's value once a defaulting function has returned r: config is
\* passed by value and the function works on ret, a DeepCopy of it
CallerConfigAfter(c, r) == c

\* LeaderElectionDefaulting: ret is a copy of c with the zero fields filled
LeaderElectionDefaulting(c, defNamespace, defName, file) ==
    [c EXCEPT
        !.LeaseDuration = IF @ = 0 THEN DefaultLeaseDuration ELSE @,
        !.RenewDeadline = IF @ = 0 THEN DefaultRenewDeadline ELSE @,
        !.RetryPeriod   = IF @ = 0 THEN DefaultRetryPeriod ELSE @,
        !.Namespace     = IF Len(@) = 0
                          THEN IF Len(defNamespace) > 0 THEN defNamespace
                               ELSE NamespaceFromFile(@, file)
                          ELSE @,
        !.Name          = IF Len(@) = 0 THEN defName ELSE @]

LeaderElectionSNOConfig_OnlyUnset(c) ==
    [c EXCEPT
        !.LeaseDuration = IF @ = 0 THEN SNOLeaseDuration ELSE @,
        !.RenewDeadline = IF @ = 0 THEN SNORenewDeadline ELSE @,
        !.RetryPeriod   = IF @ = 0 THEN SNORetryPeriod ELSE @]

LeaderElectionSNOConfig_LongRetry(c) ==
    [c EXCEPT
        !.LeaseDuration = SNOLeaseDuration,
        !.RenewDeadline = SNORenewDeadline,
        !.RetryPeriod   = SNORenewDeadline]

\* LeaderElectionSNOConfig: the three durations are set unconditionally
LeaderElectionSNOConfig(c) ==
    [c EXCEPT
        !.LeaseDuration = SNOLeaseDuration,
        !.RenewDeadline = SNORenewDeadline,
        !.RetryPeriod   = SNORetryPeriod]

-----------------------------------------------------------------------------
(* ToConfigMapLeaderElection: the constructor of the election config *)

\* uuid.NewUUID() in process p: a value no other call returns
NewUUID(p) == <<"u", CASE p = 1 -> "1" [] p = 2 -> "2" [] OTHER -> "3">>

EmptyLeaderElectionConfig ==
    [Lock |-> [Namespace |-> << >>, Name |-> << >>, Identity |-> << >>],
     ReleaseOnCancel |-> FALSE,
     LeaseDuration |-> 0, RenewDeadline |-> 0, RetryPeriod |-> 0]

\* the identity the lock is created with: the caller's, or a generated one
Identity_NoUniquifier(identity, hostname, uuid) ==
    IF Len(identity) = 0
    THEN IF ~hostname.ok THEN uuid ELSE hostname.name
    ELSE identity

Identity(identity, hostname, uuid) ==
    IF Len(identity) = 0
    THEN IF ~hostname.ok THEN uuid ELSE hostname.name \o <<"_">> \o uuid
    ELSE identity

ReleaseOnCancel_Unset == FALSE

\* the ReleaseOnCancel field of the returned config
ReleaseOnCancel == TRUE

ElectionTimings_LeaseIsRetry(c) ==
    [LeaseDuration |-> c.RetryPeriod,
     RenewDeadline |-> c.RenewDeadline,
     RetryPeriod   |-> c.RetryPeriod]

ElectionTimings_DeadlineIsRetry(c) ==
    [LeaseDuration |-> c.LeaseDuration,
     RenewDeadline |-> c.RetryPeriod,
     RetryPeriod   |-> c.RetryPeriod]

ElectionTimings_RetryIsDeadline(c) ==
    [LeaseDuration |-> c.LeaseDuration,
     RenewDeadline |-> c.RenewDeadline,
     RetryPeriod   |-> c.RenewDeadline]

\* the three durations of the returned config
ElectionTimings(c) ==
    [LeaseDuration |-> c.LeaseDuration,
     RenewDeadline |-> c.RenewDeadline,
     RetryPeriod   |-> c.RetryPeriod]

ToConfigMapLeaderElection_NoNameCheck(env, c, identity) ==
    IF ~env.clientOK
    THEN [err |-> "client", cfg |-> EmptyLeaderElectionConfig]
    ELSE IF Len(c.Namespace) = 0
    THEN [err |-> "namespace may not be empty", cfg |-> EmptyLeaderElectionConfig]
    ELSE IF ~env.lockOK
    THEN [err |-> "lock", cfg |-> EmptyLeaderElectionConfig]
    ELSE [err |-> "",
          cfg |-> [Lock |-> [Namespace |-> c.Namespace, Name |-> c.Name,
                             Identity |-> Identity(identity, env.hostname, env.uuid)],
                   ReleaseOnCancel |-> ReleaseOnCancel,
                   LeaseDuration |-> ElectionTimings(c).LeaseDuration,
                   RenewDeadline |-> ElectionTimings(c).RenewDeadline,
                   RetryPeriod   |-> ElectionTimings(c).RetryPeriod]]

\* env: what the calls into the platform give in this process
\*   clientOK (kubernetes.NewForConfig), hostname (os.Hostname: [ok, name]),
\*   uuid (uuid.NewUUID), lockOK (resourcelock.New)
ToConfigMapLeaderElection(env, c, identity) ==
    IF ~env.clientOK
    THEN [err |-> "client", cfg |-> EmptyLeaderElectionConfig]
    ELSE IF Len(c.Namespace) = 0
    THEN [err |-> "namespace may not be empty", cfg |-> EmptyLeaderElectionConfig]
    ELSE IF Len(c.Name) = 0
    THEN [err |-> "name may not be empty", cfg |-> EmptyLeaderElectionConfig]
    ELSE IF ~env.lockOK
    THEN [err |-> "lock", cfg |-> EmptyLeaderElectionConfig]
    ELSE [err |-> "",
          cfg |-> [Lock |-> [Namespace |-> c.Namespace, Name |-> c.Name,
                             Identity |-> Identity(identity, env.hostname, env.uuid)],
                   ReleaseOnCancel |-> ReleaseOnCancel,
                   LeaseDuration |-> ElectionTimings(c).LeaseDuration,
                   RenewDeadline |-> ElectionTimings(c).RenewDeadline,
                   RetryPeriod   |-> ElectionTimings(c).RetryPeriod]]

\* the record of a call: the identity argument, whether os.Hostname
\* succeeded, and the error returned ("" for nil)
NotConstructed == [done |-> FALSE, err |-> "", identity |-> << >>, hostOK |-> TRUE]

Constructed(env, c, identity) ==
    [done |-> TRUE, err |-> ToConfigMapLeaderElection(env, c, identity).err,
     identity |-> identity, hostOK |-> env.hostname.ok]

OnStoppedLeading_Returns(running) == running

\* Callbacks.OnStoppedLeading: logs, then os.Exit(0).  Given whether the
\* process is running, whether it still is once the callback has run.
OnStoppedLeading(running) == FALSE

-----------------------------------------------------------------------------
(* The controller command and its Config(): the leaderElection section of   *)
(* the config file, and the command's DisableLeaderElection flag            *)

\* no command is involved: the config comes from the caller as it is
NoCommand == [DisableLeaderElection |-> FALSE, disable |-> "absent",
              leaderElection |-> [none |-> TRUE], err |-> ""]

\* the disable key of the file's leaderElection section, decoded: false when
\* the key is absent
DecodeDisable(key) == key = "true"

Config_FileSupersedes(flag, key, section) ==
    [err |-> "",
     LeaderElection |->
        [section EXCEPT !.Disable = IF key = "absent" THEN flag
                                    ELSE DecodeDisable(key)]]

\* Config(): the file's section, disabled as well when the command says so
Config(flag, key, section) ==
    [err |-> "",
     LeaderElection |->
        [section EXCEPT !.Disable = IF flag THEN TRUE ELSE DecodeDisable(key)]]

\* the cases of TestControllerCmdConfigLeaderElection
TestCases ==
    { [disable |-> "absent", cmdConfigDisableLeaderElection |-> FALSE, expected |-> FALSE],
      [disable |-> "absent", cmdConfigDisableLeaderElection |-> TRUE,  expected |-> TRUE],
      [disable |-> "true",   cmdConfigDisableLeaderElection |-> FALSE, expected |-> TRUE],
      [disable |-> "false",  cmdConfigDisableLeaderElection |-> TRUE,  expected |-> TRUE] }

-----------------------------------------------------------------------------
(* staticPodFallbackConditionController.sync.  A Go string is a TLA+ string *)
(* here; a pod's Annotations are a function from the keys it has.          *)

\* no such controller is involved
NoStaticPods == [none |-> TRUE]

\* the condition sync starts from: only its type is set
DegradedCondition ==
    [Type |-> "StaticPodFallbackRevisionDegraded", Status |-> "", Reason |-> "",
     Message |-> ""]

\* podLister.List(podLabelSelector): the pods the selector matches, or an error
List(pods, listErr) ==
    IF listErr # "" THEN [pods |-> << >>, err |-> listErr]
    ELSE [pods |-> SelectSeq(pods, LAMBDA pod : pod.matches), err |-> ""]

\* an annotation's value, or the default when the pod does not have it
AnnotationOr(pod, key, default) ==
    IF key \in DOMAIN pod.Annotations THEN pod.Annotations[key] ELSE default

\* the loop over the listed pods: the reason of the first pod annotated with
\* FallbackForRevision that has a non-empty one, and a message line per
\* annotated pod
RECURSIVE Fallbacks(_, _)
Fallbacks(kasPods, acc) ==
    IF kasPods = << >> THEN acc
    ELSE LET kasPod == Head(kasPods)
             message == "a static pod " \o kasPod.Name
                          \o " was rolled back to revision "
                          \o AnnotationOr(kasPod, "FallbackForRevision", "")
                          \o " due to "
                          \o AnnotationOr(kasPod, "FallbackMessage", "unknown")
         IN  IF "FallbackForRevision" \in DOMAIN kasPod.Annotations
             THEN Fallbacks(Tail(kasPods),
                    [conditionMessage |->
                        IF Len(acc.conditionMessage) > 0
                        THEN acc.conditionMessage \o "\n" \o message
                        ELSE message,
                     conditionReason |->
                        IF Len(acc.conditionReason) = 0
                        THEN AnnotationOr(kasPod, "FallbackReason", "Unknown")
                        ELSE acc.conditionReason])
             ELSE Fallbacks(Tail(kasPods), acc)

SyncCondition_ReasonOnly(f) ==
    IF Len(f.conditionReason) > 0
    THEN [DegradedCondition EXCEPT !.Message = f.conditionMessage,
                                   !.Reason = f.conditionReason,
                                   !.Status = "True"]
    ELSE [DegradedCondition EXCEPT !.Status = "False"]

\* the condition once the pods have been looked at: non-degraded unless a
\* reason or a message was collected
SyncCondition(f) ==
    IF Len(f.conditionReason) > 0 \/ Len(f.conditionMessage) > 0
    THEN [DegradedCondition EXCEPT !.Message = f.conditionMessage,
                                   !.Reason = f.conditionReason,
                                   !.Status = "True"]
    ELSE [DegradedCondition EXCEPT !.Status = "False"]

\* the body of sync: the error it returns and the condition it leaves to
\* the deferred function.  monitor is what startupMonitorEnabledFn returns.
SyncBody(monitor, pods, listErr) ==
    IF monitor.err # ""
    THEN [err |-> monitor.err, condition |-> DegradedCondition]
    ELSE IF ~monitor.enabled
    THEN [err |-> "", condition |-> [DegradedCondition EXCEPT !.Status = "False"]]
    ELSE IF List(pods, listErr).err # ""
    THEN [err |-> List(pods, listErr).err, condition |-> DegradedCondition]
    ELSE [err |-> "",
          condition |-> SyncCondition(
              Fallbacks(List(pods, listErr).pods,
                        [conditionMessage |-> "", conditionReason |-> ""]))]

\* sync with its deferred function: when the body returned no error the
\* condition is applied, and an error of the apply is the error of sync.
\* status is the operator status before, applied says whether
\* ApplyOperatorStatus was called.
Sync(monitor, pods, listErr, applyErr, status) ==
    LET body == SyncBody(monitor, pods, listErr)
    IN  IF body.err = ""
        THEN [err |-> applyErr, applied |-> TRUE,
              status |-> IF applyErr = "" THEN body.condition ELSE status]
        ELSE [err |-> body.err, applied |-> FALSE, status |-> status]

-----------------------------------------------------------------------------
(* The store: one lease record under optimistic concurrency *)

Procs == {1, 2}

\* the LeaseRecord fields the election reads: the holder, the lease duration
\* and the renew time, under the version token (0: there is no record)
NoRecord ==
    [HolderIdentity |-> << >>, LeaseDurationSeconds |-> 0, RenewTime |-> 0,
     version |-> 0]

Requests(p) == {m \in net : m.from = p}
HasRequest(p) == Requests(p) # {}

Request(p, kind, rec, ver) ==
    [from |-> p, kind |-> kind, rec |-> rec, ver |-> ver, resp |-> "pending"]

\* create(key, record) -> ok | AlreadyExists
StoreCreate_NoCheck(m) ==
    [resp |-> "ok", record |-> [m.rec EXCEPT !.version = record.version + 1]]

StoreCreate(m) ==
    IF record.version = 0
    THEN [resp |-> "ok", record |-> [m.rec EXCEPT !.version = 1]]
    ELSE [resp |-> "AlreadyExists", record |-> record]

\* update(key, record, expectedVersion) -> ok | VersionConflict
StoreUpdate_NoCheck(m) ==
    IF record.version # 0
    THEN [resp |-> "ok", record |-> [m.rec EXCEPT !.version = record.version + 1]]
    ELSE [resp |-> "VersionConflict", record |-> record]

StoreUpdate(m) ==
    IF record.version # 0 /\ record.version = m.ver
    THEN [resp |-> "ok", record |-> [m.rec EXCEPT !.version = record.version + 1]]
    ELSE [resp |-> "VersionConflict", record |-> record]

\* the store handles request m; up: whether it is reachable for this request
StoreServe(m, up) ==
    /\ m \in net
    /\ m.resp = "pending"
    /\ IF ~up
       THEN /\ net' = (net \ {m}) \cup {[m EXCEPT !.resp = "Unavailable"]}
            /\ UNCHANGED record
       ELSE IF m.kind = "get"
       THEN /\ net' = (net \ {m}) \cup
                      {[m EXCEPT !.resp = IF record.version = 0 THEN "NotFound" ELSE "ok",
                                 !.rec = record]}
            /\ UNCHANGED record
       ELSE IF m.kind = "create"
       THEN /\ net' = (net \ {m}) \cup {[m EXCEPT !.resp = StoreCreate(m).resp,
                                                   !.rec = StoreCreate(m).record]}
            /\ record' = StoreCreate(m).record
       ELSE /\ net' = (net \ {m}) \cup {[m EXCEPT !.resp = StoreUpdate(m).resp,
                                                   !.rec = StoreUpdate(m).record]}
            /\ record' = StoreUpdate(m).record
    /\ hist' = [hist EXCEPT
                  !.createOK = IF up /\ m.kind = "create" /\ StoreCreate(m).resp = "ok"
                               THEN @ \cup {m.from} ELSE @,
                  !.createFailed = IF up /\ m.kind = "create" /\ StoreCreate(m).resp # "ok"
                               THEN @ \cup {m.from} ELSE @]
    /\ UNCHANGED <<lec, now, outage, state, observed, lastRenew, nextAttempt,
                   reported, cancelled, alive, calls, work>>
    /\ UNCHANGED cfgVars

-----------------------------------------------------------------------------
(* The election client: one attempt per process *)

Id(p) == lec[p].Lock.Identity

\* expired (RenewTime + LeaseDuration < now)
Expired(r, t) == r.RenewTime + r.LeaseDurationSeconds < t

\* the record a client writes to acquire or renew at time t
LeaseRecord(p, t) ==
    [HolderIdentity |-> Id(p),
     LeaseDurationSeconds |-> lec[p].LeaseDuration,
     RenewTime |-> t,
     version |-> 0]

\* the record a client writes to release the lease: no holder
ReleasedRecord(p, t) ==
    [HolderIdentity |-> << >>,
     LeaseDurationSeconds |-> 1,
     RenewTime |-> t,
     version |-> 0]

\* the record may be taken: absent, cleared, expired, or held by this identity
MayAcquire(p, r, t) ==
    \/ r.version = 0
    \/ r.HolderIdentity = << >>
    \/ r.HolderIdentity = Id(p)
    \/ Expired(r, t)

\* the deadline of the lease a Leading client holds
Deadline(p) == lastRenew[p] + lec[p].RenewDeadline

Due_IgnoresOutstanding(p) ==
    /\ state[p] \in {"Acquiring", "Leading"}
    /\ ~cancelled[p]
    /\ now >= nextAttempt[p]

\* an attempt is due and nothing of this client is outstanding
Due(p) ==
    /\ state[p] \in {"Acquiring", "Leading"}
    /\ ~cancelled[p]
    /\ ~HasRequest(p)
    /\ now >= nextAttempt[p]

\* Unacquired -> Acquiring: the election attempt starts
Start(p) ==
    /\ alive[p]
    /\ ctor[p].done /\ ctor[p].err = ""
    /\ state[p] = "Unacquired"
    /\ state' = [state EXCEPT ![p] = "Acquiring"]
    /\ nextAttempt' = [nextAttempt EXCEPT ![p] = now]
    /\ UNCHANGED <<lec, now, outage, record, net, observed, lastRenew, reported,
                   cancelled, alive, calls, work, hist>>
    /\ UNCHANGED cfgVars

\* an acquisition or renewal attempt begins with a get of the record
IssueGet(p) ==
    /\ alive[p]
    /\ Due(p)
    /\ net' = net \cup {Request(p, "get", NoRecord, 0)}
    /\ nextAttempt' = [nextAttempt EXCEPT ![p] = now + lec[p].RetryPeriod]
    /\ UNCHANGED <<lec, now, outage, record, state, observed, lastRenew, reported,
                   cancelled, alive, calls, work, hist>>
    /\ UNCHANGED cfgVars

\* a Leading client takes no response once its budget is used up
InBudget(p) == state[p] = "Leading" => now <= Deadline(p)

\* the response to a get: observe the record and give a changed holder to
\* OnNewLeader, then create or update, or give this attempt up (store
\* unreachable, or the lease is validly held by another identity)
ReceiveGet(p) ==
    \E m \in Requests(p) :
        /\ alive[p]
        /\ m.kind = "get"
        /\ m.resp # "pending"
        /\ InBudget(p)
        /\ IF m.resp = "Unavailable"
           THEN /\ net' = net \ {m}
                /\ UNCHANGED <<reported, observed>>
           ELSE /\ observed' = [observed EXCEPT ![p] = m.rec.version]
                /\ IF m.resp = "ok" /\ m.rec.HolderIdentity # reported[p]
                   THEN reported' = [reported EXCEPT ![p] = m.rec.HolderIdentity]
                   ELSE UNCHANGED reported
                /\ IF m.resp = "NotFound"
                   THEN net' = (net \ {m}) \cup
                               {Request(p, "create", LeaseRecord(p, now), 0)}
                   ELSE IF MayAcquire(p, m.rec, now)
                   THEN net' = (net \ {m}) \cup
                               {Request(p, "update", LeaseRecord(p, now), m.rec.version)}
                   ELSE net' = net \ {m}
        /\ UNCHANGED <<lec, now, outage, record, state, lastRenew, nextAttempt,
                       cancelled, alive, calls, work, hist>>
        /\ UNCHANGED cfgVars

\* the response to a create or update.  ok while Acquiring: enter Leading and
\* invoke OnStartedLeading; ok while Leading: the lease is renewed.  A
\* response that comes after RenewDeadline has elapsed since the RenewTime it
\* carries is abandoned like a failure.
ReceiveWrite(p) ==
    \E m \in Requests(p) :
        /\ alive[p]
        /\ m.kind \in {"create", "update"}
        /\ m.resp # "pending"
        /\ InBudget(p)
        /\ net' = net \ {m}
        /\ IF m.resp = "ok" /\ now <= m.rec.RenewTime + lec[p].RenewDeadline
           THEN /\ lastRenew' = [lastRenew EXCEPT ![p] = m.rec.RenewTime]
                /\ observed' = [observed EXCEPT ![p] = m.rec.version]
                /\ IF state[p] = "Acquiring"
                   THEN /\ state' = [state EXCEPT ![p] = "Leading"]
                        /\ calls' = [calls EXCEPT ![p].started = @ + 1]
                   ELSE UNCHANGED <<state, calls>>
           ELSE UNCHANGED <<lastRenew, observed, state, calls>>
        /\ UNCHANGED <<lec, now, outage, record, nextAttempt, reported,
                       cancelled, alive, work, hist>>
        /\ UNCHANGED cfgVars

EndAttempt_Reenters(p) ==
    /\ state' = [state EXCEPT ![p] = "Unacquired"]
    /\ net' = net \ Requests(p)
    /\ observed' = [observed EXCEPT ![p] = 0]
    /\ lastRenew' = [lastRenew EXCEPT ![p] = 0]
    /\ nextAttempt' = [nextAttempt EXCEPT ![p] = 0]
    /\ reported' = [reported EXCEPT ![p] = << >>]

\* Stopped is terminal: whatever is outstanding is abandoned and the attempt
\* keeps nothing of what it observed
EndAttempt(p) ==
    /\ state' = [state EXCEPT ![p] = "Stopped"]
    /\ net' = net \ Requests(p)
    /\ observed' = [observed EXCEPT ![p] = 0]
    /\ lastRenew' = [lastRenew EXCEPT ![p] = 0]
    /\ nextAttempt' = [nextAttempt EXCEPT ![p] = 0]
    /\ reported' = [reported EXCEPT ![p] = << >>]

\* Leading -> Stopped, with OnStoppedLeading
StopLeading(p) ==
    /\ EndAttempt(p)
    /\ calls' = [calls EXCEPT ![p].stopped = @ + 1]
    /\ alive' = [alive EXCEPT ![p] = OnStoppedLeading(@)]

\* RenewDeadline has elapsed since the last successful renewal.  The retry
\* that falls on the deadline itself is still made; an operation outstanding
\* at the deadline is abandoned as soon as it exceeds it.
RenewDeadlineElapsed(p) ==
    /\ alive[p]
    /\ state[p] = "Leading"
    /\ \/ ~HasRequest(p) /\ ~Due(p) /\ now >= Deadline(p)
       \/ HasRequest(p) /\ now > Deadline(p)
    /\ StopLeading(p)
    /\ UNCHANGED <<lec, now, outage, record, cancelled, work, hist>>
    /\ UNCHANGED cfgVars

\* the caller cancels the attempt.  Acquiring -> Stopped without a callback.
\* Leading with ReleaseOnCancel: what is outstanding is abandoned and one
\* conditional release is sent; without it: Leading -> Stopped at once.
Cancel(p) ==
    /\ alive[p]
    /\ ~cancelled[p]
    /\ state[p] \in {"Acquiring", "Leading"}
    /\ cancelled' = [cancelled EXCEPT ![p] = TRUE]
    /\ IF state[p] = "Acquiring"
       THEN /\ EndAttempt(p)
            /\ UNCHANGED <<calls, alive>>
       ELSE IF lec[p].ReleaseOnCancel
       THEN /\ net' = (net \ Requests(p)) \cup
                      {Request(p, "release", ReleasedRecord(p, now), observed[p])}
            /\ UNCHANGED <<state, observed, lastRenew, nextAttempt, reported,
                           calls, alive>>
       ELSE StopLeading(p)
    /\ UNCHANGED <<lec, now, outage, record, work, hist>>
    /\ UNCHANGED cfgVars

\* the response to the release, whatever it is, completes Leading -> Stopped
ReceiveRelease(p) ==
    \E m \in Requests(p) :
        /\ alive[p]
        /\ m.kind = "release"
        /\ m.resp # "pending"
        /\ InBudget(p)
        /\ StopLeading(p)
        /\ UNCHANGED <<lec, now, outage, record, cancelled, work, hist>>
        /\ UNCHANGED cfgVars

\* the leader-only logic that OnStartedLeading set going runs one step; it
\* runs for as long as the process does
LeaderWork(p) ==
    /\ alive[p]
    /\ calls[p].started > 0
    /\ work' = [work EXCEPT ![p] = IF calls[p].stopped > 0 THEN "afterStopped"
                                   ELSE "leading"]
    /\ work'[p] # work[p]
    /\ UNCHANGED <<lec, now, outage, record, net, state, observed, lastRenew,
                   nextAttempt, reported, cancelled, alive, calls, hist>>
    /\ UNCHANGED cfgVars

-----------------------------------------------------------------------------
(* Contending processes, any interleaving, a store that may fail any request *)

MaxTime == 4

\* the machine both processes run on
Env(p, hostOK) ==
    [clientOK |-> TRUE, lockOK |-> TRUE,
     hostname |-> [ok |-> hostOK, name |-> <<"h">>],
     uuid |-> NewUUID(p)]

\* a caller that sets the three durations itself
ExplicitTimings ==
    { [Namespace |-> << >>, Name |-> <<"l">>, LeaseDuration |-> 3,
       RenewDeadline |-> 2, RetryPeriod |-> 1, Disable |-> FALSE] }

\* the identity argument of each process: none given, or distinct ones
IdentityArgs == { <<(<< >>), (<< >>)>> }

ElectionConfigured(c, ids, hostOK) ==
    /\ config = c
    /\ defaultNamespace = <<"d">>
    /\ defaultName = << >>
    /\ nsFile = [ok |-> FALSE, data |-> << >>]
    /\ ret = LeaderElectionDefaulting(config, defaultNamespace, defaultName, nsFile)
    /\ called = "ToConfigMapLeaderElection"
    /\ fileRead = ReadsNamespaceFile(config, defaultNamespace)
    /\ lec = [p \in Procs |-> ToConfigMapLeaderElection(Env(p, hostOK), ret, ids[p]).cfg]
    /\ ctor = [p \in Procs |-> Constructed(Env(p, hostOK), ret, ids[p])]
    /\ cmd = NoCommand
    /\ sp = NoStaticPods

NoOutage == [start |-> 0, len |-> 0]

ElectionStart ==
    /\ now = 0
    /\ record = NoRecord
    /\ net = {}
    /\ state = [p \in Procs |-> "Unacquired"]
    /\ observed = [p \in Procs |-> 0]
    /\ lastRenew = [p \in Procs |-> 0]
    /\ nextAttempt = [p \in Procs |-> 0]
    /\ reported = [p \in Procs |-> << >>]
    /\ cancelled = [p \in Procs |-> FALSE]
    /\ alive = [p \in Procs |-> TRUE]
    /\ calls = [p \in Procs |-> [started |-> 0, stopped |-> 0]]
    /\ work = [p \in Procs |-> "none"]
    /\ hist = [createOK |-> {}, createFailed |-> {}]

Init ==
    /\ \E c \in ExplicitTimings, ids \in IdentityArgs :
          ElectionConfigured(c, ids, TRUE)
    /\ outage = NoOutage
    /\ ElectionStart

\* time passes for the processes P.  Each has started its attempt; a client
\* issues the attempt that is due before time passes, and a Leading client
\* does not sleep through its deadline: at the deadline only an outstanding
\* operation lets time pass, and past it nothing.
Tick(P) ==
    /\ now < MaxTime
    /\ \A p \in P :
          /\ state[p] # "Unacquired"
          /\ ~(alive[p] /\ Due(p))
          /\ (alive[p] /\ state[p] = "Leading") =>
                 \/ now < Deadline(p)
                 \/ now = Deadline(p) /\ HasRequest(p)
    /\ now' = now + 1
    /\ UNCHANGED <<lec, outage, record, net, state, observed, lastRenew,
                   nextAttempt, reported, cancelled, alive, calls, work, hist>>
    /\ UNCHANGED cfgVars

Next ==
    \/ \E p \in Procs : Start(p)
    \/ \E p \in Procs : IssueGet(p)
    \/ \E m \in net, up \in BOOLEAN : StoreServe(m, up)
    \/ \E p \in Procs : ReceiveGet(p)
    \/ \E p \in Procs : ReceiveWrite(p)
    \/ \E p \in Procs : RenewDeadlineElapsed(p)
    \/ \E p \in Procs : Cancel(p)
    \/ \E p \in Procs : ReceiveRelease(p)
    \/ Tick(Procs)

Spec == Init /\ [][Next]_vars

-----------------------------------------------------------------------------
(* One process, its callbacks and the leader-only logic they start and stop *)

NextLifecycle ==
    \/ Start(1)
    \/ IssueGet(1)
    \/ \E m \in net, up \in BOOLEAN : StoreServe(m, up)
    \/ ReceiveGet(1)
    \/ ReceiveWrite(1)
    \/ RenewDeadlineElapsed(1)
    \/ Cancel(1)
    \/ ReceiveRelease(1)
    \/ LeaderWork(1)
    \/ Tick({1})

SpecLifecycle == Init /\ [][NextLifecycle]_vars

-----------------------------------------------------------------------------
(* One process under a profile, and one store outage.  The store answers    *)
(* at once: with an error during the outage, and with the result otherwise. *)

\* the config a component hands to the defaulting functions
ProfileInput ==
    [Namespace |-> <<"n", "s">>, Name |-> <<"l">>, LeaseDuration |-> 0,
     RenewDeadline |-> 0, RetryPeriod |-> 0, Disable |-> FALSE]

InOutage(t) == outage.start <= t /\ t < outage.start + outage.len

InitOutage ==
    /\ config = ProfileInput
    /\ defaultNamespace = << >>
    /\ defaultName = << >>
    /\ nsFile = [ok |-> FALSE, data |-> << >>]
    /\ \/ /\ called = "LeaderElectionDefaulting"
          /\ ret = LeaderElectionDefaulting(config, defaultNamespace, defaultName, nsFile)
          /\ fileRead = ReadsNamespaceFile(config, defaultNamespace)
       \/ /\ called = "LeaderElectionSNOConfig"
          /\ ret = LeaderElectionSNOConfig(config)
          /\ fileRead = FALSE
    /\ lec = [p \in Procs |-> ToConfigMapLeaderElection(Env(p, TRUE), ret, << >>).cfg]
    /\ ctor = [p \in Procs |-> Constructed(Env(p, TRUE), ret, << >>)]
    /\ cmd = NoCommand
    /\ sp = NoStaticPods
    /\ outage \in [start : 1..lec[1].RetryPeriod,
                   len : 0..(lec[1].RenewDeadline + lec[1].RetryPeriod)]
    /\ ElectionStart

Min(a, b) == IF a <= b THEN a ELSE b

\* the next time the client has something to do
NextTimer(p) ==
    IF state[p] = "Leading" THEN Min(nextAttempt[p], Deadline(p)) ELSE nextAttempt[p]

\* time passes until the client's next timer, once everything due now is done
TickPrompt ==
    /\ state[1] \in {"Acquiring", "Leading"}
    /\ net = {}
    /\ ~Due(1)
    /\ state[1] = "Leading" => now < Deadline(1)
    /\ NextTimer(1) <= outage.start + outage.len + lec[1].RetryPeriod
    /\ now' = NextTimer(1)
    /\ UNCHANGED <<lec, outage, record, net, state, observed, lastRenew,
                   nextAttempt, reported, cancelled, alive, calls, work, hist>>
    /\ UNCHANGED cfgVars

NextOutage ==
    \/ Start(1)
    \/ IssueGet(1)
    \/ \E m \in net : StoreServe(m, ~InOutage(now))
    \/ ReceiveGet(1)
    \/ ReceiveWrite(1)
    \/ RenewDeadlineElapsed(1)
    \/ TickPrompt

SpecOutage == InitOutage /\ [][NextOutage]_vars

\* the coordinating loop keeps running: it is never stalled forever while it
\* has a step to take
SpecOutageLive == SpecOutage /\ WF_vars(NextOutage)

-----------------------------------------------------------------------------
(* The constructor, called by each process on the config a defaulting       *)
(* function resolved, and the start of the attempt it configures           *)

\* what a component hands to the defaulting functions: a namespace and a
\* name, or neither, and no timings
ConstructorInputs ==
    { [Namespace |-> ns, Name |-> n, LeaseDuration |-> 0, RenewDeadline |-> 0,
       RetryPeriod |-> 0, Disable |-> FALSE] :
          ns \in {<< >>, <<"n", "s">>}, n \in {<< >>, <<"l">>} }

\* the identity argument: none, or one the caller chose
IdentityInputs == {<< >>, <<"a">>, <<"b">>}

\* what the platform gives a call made in process p
EnvOf(p, hostOK, clientOK, lockOK) ==
    [clientOK |-> clientOK, lockOK |-> lockOK,
     hostname |-> [ok |-> hostOK, name |-> <<"h">>],
     uuid |-> NewUUID(p)]

InitConstructor ==
    /\ config \in ConstructorInputs
    /\ defaultNamespace \in {<< >>, <<"d">>}
    /\ defaultName \in {<< >>, <<"c">>}
    /\ nsFile \in { [ok |-> FALSE, data |-> << >>],
                    [ok |-> TRUE,  data |-> <<" ", "f", "\n">>] }
    /\ \/ /\ called = "LeaderElectionDefaulting"
          /\ ret = LeaderElectionDefaulting(config, defaultNamespace, defaultName, nsFile)
          /\ fileRead = ReadsNamespaceFile(config, defaultNamespace)
       \/ /\ called = "LeaderElectionSNOConfig"
          /\ ret = LeaderElectionSNOConfig(config)
          /\ fileRead = FALSE
    /\ lec = [p \in Procs |-> EmptyLeaderElectionConfig]
    /\ ctor = [p \in Procs |-> NotConstructed]
    /\ cmd = NoCommand
    /\ sp = NoStaticPods
    /\ outage = NoOutage
    /\ ElectionStart

\* process p calls ToConfigMapLeaderElection on the resolved config
Construct(p) ==
    /\ ~ctor[p].done
    /\ \E identity \in IdentityInputs, hostOK, clientOK, lockOK \in BOOLEAN :
          /\ lec' = [lec EXCEPT ![p] =
                 ToConfigMapLeaderElection(EnvOf(p, hostOK, clientOK, lockOK),
                                           ret, identity).cfg]
          /\ ctor' = [ctor EXCEPT ![p] =
                 Constructed(EnvOf(p, hostOK, clientOK, lockOK), ret, identity)]
    /\ UNCHANGED <<config, defaultNamespace, defaultName, nsFile, ret, called,
                   fileRead, cmd, sp>>
    /\ UNCHANGED <<now, outage, record, net, state, observed, lastRenew,
                   nextAttempt, reported, cancelled, alive, calls, work, hist>>

NextConstructor ==
    \/ \E p \in Procs : Construct(p)
    \/ \E p \in Procs : Start(p)

SpecConstructor == InitConstructor /\ [][NextConstructor]_vars

-----------------------------------------------------------------------------
(* Failover: two processes under the standard profile and a reachable       *)
(* store that answers at once; the leader stops without releasing           *)

\* the leader stops no later than this
MaxCrashTime == 60

InitFailover ==
    /\ config = ProfileInput
    /\ defaultNamespace = << >>
    /\ defaultName = << >>
    /\ nsFile = [ok |-> FALSE, data |-> << >>]
    /\ called = "LeaderElectionDefaulting"
    /\ ret = LeaderElectionDefaulting(config, defaultNamespace, defaultName, nsFile)
    /\ fileRead = ReadsNamespaceFile(config, defaultNamespace)
    /\ lec = [p \in Procs |-> ToConfigMapLeaderElection(Env(p, TRUE), ret, << >>).cfg]
    /\ ctor = [p \in Procs |-> Constructed(Env(p, TRUE), ret, << >>)]
    /\ cmd = NoCommand
    /\ sp = NoStaticPods
    /\ outage = NoOutage
    /\ ElectionStart

\* the leader's process ends, or hangs for good, after a renewal: it fires
\* no callback and releases nothing
Crash(p) ==
    /\ alive[p]
    /\ state[p] = "Leading"
    /\ ~HasRequest(p)
    /\ now = lastRenew[p]
    /\ now <= MaxCrashTime
    /\ alive' = [alive EXCEPT ![p] = FALSE]
    /\ UNCHANGED <<lec, now, outage, record, net, state, observed, lastRenew,
                   nextAttempt, reported, cancelled, calls, work, hist>>
    /\ UNCHANGED cfgVars

\* a second of time passes once everything due is done.  Process 1 starts at
\* once and process 2 within the first RetryPeriod, so that the attempts of
\* the two fall anywhere relative to each other.
TickFailover ==
    /\ net = {}
    /\ state[1] # "Unacquired"
    /\ state[2] = "Unacquired" => now + 1 < lec[2].RetryPeriod
    /\ \A p \in Procs : ~(alive[p] /\ Due(p))
    /\ now < MaxCrashTime + lec[1].LeaseDuration + 2 * lec[1].RetryPeriod
    /\ now' = now + 1
    /\ UNCHANGED <<lec, outage, record, net, state, observed, lastRenew,
                   nextAttempt, reported, cancelled, alive, calls, work, hist>>
    /\ UNCHANGED cfgVars

NextFailover ==
    \/ \E p \in Procs : Start(p)
    \/ \E p \in Procs : IssueGet(p)
    \/ \E m \in net : StoreServe(m, TRUE)
    \/ \E p \in Procs : ReceiveGet(p)
    \/ \E p \in Procs : ReceiveWrite(p)
    \/ \E p \in Procs : Crash(p)
    \/ TickFailover

\* the loops and the store keep running
SpecFailover == InitFailover /\ [][NextFailover]_vars /\ WF_vars(NextFailover)

-----------------------------------------------------------------------------
(* Inputs of the defaulting functions *)

\* duration fields a caller may hand in: unset (0), negative, and values
\* below, between and above the defaults of both profiles
DurationInputs == {0, -5, 10, 50, 120, 300}

NamespaceInputs == {<< >>, <<"n", "s">>}
NameInputs      == {<< >>, <<"l">>}

FileInputs ==
    { [ok |-> FALSE, data |-> << >>],
      [ok |-> TRUE,  data |-> << >>],
      [ok |-> TRUE,  data |-> <<" ", "\n">>],
      [ok |-> TRUE,  data |-> <<" ", "f", "\n">>] }

LeaderElectionInputs ==
    [Namespace : NamespaceInputs, Name : NameInputs,
     LeaseDuration : DurationInputs, RenewDeadline : DurationInputs,
     RetryPeriod : DurationInputs, Disable : BOOLEAN]

NoResult == [none |-> TRUE]

InitDefaulting ==
    /\ config \in LeaderElectionInputs
    /\ defaultNamespace \in {<< >>, <<"d">>}
    /\ defaultName \in {<< >>, <<"c">>}
    /\ nsFile \in FileInputs
    /\ ret = NoResult
    /\ called = "none"
    /\ fileRead = FALSE
    /\ lec = [p \in Procs |-> EmptyLeaderElectionConfig]
    /\ ctor = [p \in Procs |-> NotConstructed]
    /\ cmd = NoCommand
    /\ sp = NoStaticPods
    /\ outage = NoOutage
    /\ ElectionStart

\* a caller applies the standard defaulting to its config
CallDefaulting ==
    /\ called = "none"
    /\ ret' = LeaderElectionDefaulting(config, defaultNamespace, defaultName, nsFile)
    /\ called' = "LeaderElectionDefaulting"
    /\ fileRead' = ReadsNamespaceFile(config, defaultNamespace)
    /\ config' = CallerConfigAfter(config, ret')
    /\ UNCHANGED <<defaultNamespace, defaultName, nsFile, ctor, cmd, sp>>
    /\ UNCHANGED elVars

\* a caller asks for the single-node profile
CallSNOConfig ==
    /\ called = "none"
    /\ ret' = LeaderElectionSNOConfig(config)
    /\ called' = "LeaderElectionSNOConfig"
    /\ fileRead' = FALSE
    /\ config' = CallerConfigAfter(config, ret')
    /\ UNCHANGED <<defaultNamespace, defaultName, nsFile, ctor, cmd, sp>>
    /\ UNCHANGED elVars

NextDefaulting == CallDefaulting \/ CallSNOConfig

SpecDefaulting == InitDefaulting /\ [][NextDefaulting]_vars

-----------------------------------------------------------------------------
(* A controller command reads its config, then has it defaulted *)

\* the rest of the file's leaderElection section: any of the fields given
\* or left out
SectionInputs ==
    [Namespace : NamespaceInputs, Name : NameInputs,
     LeaseDuration : {0, 120}, RenewDeadline : {0, 50}, RetryPeriod : {0, 10},
     Disable : {FALSE}]

InitCommand ==
    /\ cmd \in [DisableLeaderElection : BOOLEAN,
                 disable : {"absent", "false", "true"},
                 leaderElection : SectionInputs, err : {""}]
    /\ config = [cmd.leaderElection EXCEPT !.Disable = FALSE]
    /\ defaultNamespace = <<"d">>
    /\ defaultName = <<"c">>
    /\ nsFile = [ok |-> FALSE, data |-> << >>]
    /\ ret = NoResult
    /\ called = "unread"
    /\ fileRead = FALSE
    /\ lec = [p \in Procs |-> EmptyLeaderElectionConfig]
    /\ ctor = [p \in Procs |-> NotConstructed]
    /\ sp = NoStaticPods
    /\ outage = NoOutage
    /\ ElectionStart

\* cmd.Config(): the config the controller is built from
CallConfig ==
    /\ called = "unread"
    /\ config' = Config(cmd.DisableLeaderElection, cmd.disable,
                        cmd.leaderElection).LeaderElection
    /\ cmd' = [cmd EXCEPT !.err = Config(cmd.DisableLeaderElection, cmd.disable,
                                         cmd.leaderElection).err]
    /\ called' = "none"
    /\ UNCHANGED <<defaultNamespace, defaultName, nsFile, ret, fileRead, ctor, sp>>
    /\ UNCHANGED elVars

NextCommand ==
    \/ CallConfig
    \/ CallDefaulting
    \/ CallSNOConfig

SpecCommand == InitCommand /\ [][NextCommand]_vars

-----------------------------------------------------------------------------
(* The static pod fallback controller: syncs against a changing cluster *)

\* the annotations a pod can carry: subsets of the three keys sync reads;
\* a reason can be present and empty, and can be there without a revision;
\* a message comes with a revision
AnnotationInputs ==
    { f \in UNION { [D -> {"", "3", "R", "M"}] :
                      D \in SUBSET {"FallbackForRevision", "FallbackReason",
                                    "FallbackMessage"} } :
        /\ "FallbackForRevision" \in DOMAIN f => f["FallbackForRevision"] = "3"
        /\ "FallbackReason" \in DOMAIN f => f["FallbackReason"] \in {"", "R"}
        /\ "FallbackMessage" \in DOMAIN f =>
              /\ f["FallbackMessage"] = "M"
              /\ "FallbackForRevision" \in DOMAIN f
        /\ "FallbackForRevision" \notin DOMAIN f /\ "FallbackReason" \in DOMAIN f
              => f["FallbackReason"] = "R" }

\* what startupMonitorEnabledFn can return
MonitorInputs ==
    {[enabled |-> TRUE, err |-> ""], [enabled |-> FALSE, err |-> ""],
     [enabled |-> FALSE, err |-> "monitor"]}

\* the pods of the target namespace; matches says whether the pod's labels
\* match podLabelSelector
PodIndexes == {1, 2}

\* no condition has been applied yet
NoCondition == [Type |-> "", Status |-> "", Reason |-> "", Message |-> ""]

InitSync ==
    /\ sp = [none |-> FALSE,
             monitor |-> [enabled |-> TRUE, err |-> ""],
             pods |-> <<[Name |-> "p1", matches |-> TRUE,
                         Annotations |-> << >>],
                        [Name |-> "p2", matches |-> FALSE,
                         Annotations |-> << >>]>>,
             status |-> NoCondition, before |-> "",
             err |-> "", applied |-> FALSE]
    /\ cmd = NoCommand
    /\ config = EmptyLeaderElectionConfig
    /\ defaultNamespace = <<"d">>
    /\ defaultName = <<"c">>
    /\ nsFile = [ok |-> FALSE, data |-> << >>]
    /\ ret = NoResult
    /\ called = "none"
    /\ fileRead = FALSE
    /\ lec = [p \in Procs |-> EmptyLeaderElectionConfig]
    /\ ctor = [p \in Procs |-> NotConstructed]
    /\ outage = NoOutage
    /\ ElectionStart

\* one run of sync; the pod listing and the apply can each fail
RunSync ==
    /\ \E listErr \in {"", "list"}, applyErr \in {"", "apply"} :
         LET r == Sync(sp.monitor, sp.pods, listErr, applyErr, sp.status)
         IN  sp' = [sp EXCEPT !.status = r.status, !.before = sp.status.Status,
                              !.err = r.err, !.applied = r.applied]
    /\ UNCHANGED <<config, defaultNamespace, defaultName, nsFile, ret, called,
                   fileRead, ctor, cmd>>
    /\ UNCHANGED elVars

\* a pod's annotations change (the installer annotates a pod it rolled back;
\* a new revision of the pod comes without them)
Annotate(i) ==
    /\ \E a \in AnnotationInputs :
         /\ a # sp.pods[i].Annotations
         /\ sp' = [sp EXCEPT !.pods[i].Annotations = a]
    /\ UNCHANGED <<config, defaultNamespace, defaultName, nsFile, ret, called,
                   fileRead, ctor, cmd>>
    /\ UNCHANGED elVars

\* a pod's labels change
Relabel(i) ==
    /\ sp' = [sp EXCEPT !.pods[i].matches = ~sp.pods[i].matches]
    /\ UNCHANGED <<config, defaultNamespace, defaultName, nsFile, ret, called,
                   fileRead, ctor, cmd>>
    /\ UNCHANGED elVars

\* the startup monitor is switched, or its check starts or stops failing
SetMonitor ==
    /\ \E m \in MonitorInputs :
         /\ m # sp.monitor
         /\ sp' = [sp EXCEPT !.monitor = m]
    /\ UNCHANGED <<config, defaultNamespace, defaultName, nsFile, ret, called,
                   fileRead, ctor, cmd>>
    /\ UNCHANGED elVars

NextSync ==
    \/ RunSync
    \/ \E i \in PodIndexes : Annotate(i)
    \/ \E i \in PodIndexes : Relabel(i)
    \/ SetMonitor

SpecSync == InitSync /\ [][NextSync]_vars

-----------------------------------------------------------------------------
(* Properties of the defaulting functions (checked under SpecDefaulting) *)

Unset(c) == c.LeaseDuration = 0 /\ c.RenewDeadline = 0 /\ c.RetryPeriod = 0

Ordered(c) == c.RetryPeriod < c.RenewDeadline /\ c.RenewDeadline < c.LeaseDuration

Positive(c) == c.LeaseDuration > 0 /\ c.RenewDeadline > 0 /\ c.RetryPeriod > 0

\* the retry arithmetic of the comment in LeaderElectionDefaulting
LastRetry(c) == (c.RenewDeadline \div c.RetryPeriod) * c.RetryPeriod
DowntimeTolerance(c) == LastRetry(c) - c.RetryPeriod

\* C7: LeaderElectionDefaulting sets LeaseDuration, RenewDeadline and
\* RetryPeriod to 137s, 107s and 26s exactly for the fields that are zero in
\* the input; every non-zero duration and the Disable flag are returned as
\* given.
C7_DefaultingFillsExactlyZeroFields ==
    called = "LeaderElectionDefaulting" =>
        /\ ret.LeaseDuration = (IF config.LeaseDuration = 0 THEN 137 ELSE config.LeaseDuration)
        /\ ret.RenewDeadline = (IF config.RenewDeadline = 0 THEN 107 ELSE config.RenewDeadline)
        /\ ret.RetryPeriod = (IF config.RetryPeriod = 0 THEN 26 ELSE config.RetryPeriod)
        /\ ret.Disable = config.Disable

C7_Witness ==
    /\ called = "LeaderElectionDefaulting"
    /\ config.LeaseDuration = 0 /\ config.RenewDeadline = 50 /\ config.RetryPeriod = -5
    /\ config.Disable
    /\ ret.LeaseDuration = 137 /\ ret.RenewDeadline = 50 /\ ret.RetryPeriod = -5
    /\ ret.Disable

\* C8 as stated: for every partial input, the config resolved by defaulting
\* has RetryPeriod < RenewDeadline < LeaseDuration and three positive
\* durations, unless election is disabled.
C8_Original_ResolvedAlwaysOrdered ==
    (called = "LeaderElectionDefaulting" /\ ~ret.Disable) =>
        (Ordered(ret) /\ Positive(ret))

\* what an explicitly set duration has to satisfy against the other two,
\* with 137s/107s/26s standing for the unset ones
ExplicitConsistent(c) ==
    /\ c.RetryPeriod # 0 =>
          /\ c.RetryPeriod > 0
          /\ c.RetryPeriod < (IF c.RenewDeadline # 0 THEN c.RenewDeadline ELSE 107)
    /\ c.RenewDeadline # 0 =>
          /\ c.RenewDeadline > (IF c.RetryPeriod # 0 THEN c.RetryPeriod ELSE 26)
          /\ c.RenewDeadline < (IF c.LeaseDuration # 0 THEN c.LeaseDuration ELSE 137)
    /\ c.LeaseDuration # 0 =>
          c.LeaseDuration > (IF c.RenewDeadline # 0 THEN c.RenewDeadline ELSE 107)

\* C8 (amended): the resolved config satisfies the invariants exactly when
\* every explicitly set duration is consistent with the other two (the
\* defaults standing for the unset ones); defaulting neither checks nor
\* repairs an explicit value.
C8_ResolvedOrderedIffExplicitConsistent ==
    called = "LeaderElectionDefaulting" =>
        ((Ordered(ret) /\ Positive(ret)) <=> ExplicitConsistent(config))

C8_Witness ==
    /\ called = "LeaderElectionDefaulting"
    /\ ~config.Disable
    /\ config.LeaseDuration = 0 /\ config.RenewDeadline = 50 /\ config.RetryPeriod = 10
    /\ ExplicitConsistent(config)
    /\ Ordered(ret) /\ Positive(ret)

\* C9: the standard profile (defaulting a config with the three durations
\* unset) and the single-node profile (on any config) both give
\* RetryPeriod < RenewDeadline < LeaseDuration.
C9_ProfilesOrdered ==
    /\ (called = "LeaderElectionDefaulting" /\ Unset(config)) => Ordered(ret)
    /\ called = "LeaderElectionSNOConfig" => Ordered(ret)

C9_Witness ==
    /\ called = "LeaderElectionSNOConfig"
    /\ config.LeaseDuration = 10 /\ config.RenewDeadline = 120 /\ config.RetryPeriod = 300
    /\ ret.RetryPeriod < ret.RenewDeadline /\ ret.RenewDeadline < ret.LeaseDuration

\* C10: floor(RenewDeadline/RetryPeriod)*RetryPeriod - RetryPeriod is 78s
\* (last retry at 104s) on the values of the standard profile and 180s on
\* those of the single-node profile.
C10_DowntimeTolerance ==
    /\ (called = "LeaderElectionDefaulting" /\ Unset(config)) =>
          (LastRetry(ret) = 104 /\ DowntimeTolerance(ret) = 78)
    /\ called = "LeaderElectionSNOConfig" => DowntimeTolerance(ret) = 180

C10_Witness ==
    /\ called = "LeaderElectionDefaulting"
    /\ Unset(config)
    /\ ret.RenewDeadline = 107 /\ ret.RetryPeriod = 26
    /\ DowntimeTolerance(ret) = 78

-----------------------------------------------------------------------------
(* Properties of the election (checked under Spec unless said otherwise) *)

\* Leading: OnStartedLeading has fired and OnStoppedLeading has not
Leading(p) == state[p] = "Leading"

\* C1 as stated: no two instances are in the Leading state at the same time.
C1_Original_NoTwoLeading ==
    \A p, q \in Procs : (Leading(p) /\ Leading(q)) => p = q

\* C1 (amended): no two instances are Leading at the same time unless one of
\* them has been cancelled and is completing its release: an instance only
\* enters Leading when every other instance that is still Leading has been
\* cancelled.
C1_NoTwoLeadingUnlessReleasing ==
    \A p, q \in Procs :
        (Leading(p) /\ Leading(q) /\ ~cancelled[p] /\ ~cancelled[q]) => p = q

\* the lease has passed from one instance to the other by expiry
C1_Witness ==
    \E p, q \in Procs :
        /\ p # q
        /\ Leading(q) /\ ~cancelled[q]
        /\ state[p] = "Stopped" /\ calls[p].stopped = 1 /\ ~cancelled[p]
        /\ record.HolderIdentity = Id(q)

\* C2: when two clients with distinct identities race to create the absent
\* record, exactly one create succeeds and the other's fails.  While the
\* client whose create succeeded leads (it keeps renewing and is not
\* cancelled), the other is not Leading, a step leaves it Acquiring unless
\* it is cancelled, and once it has read the record as it stands it has been
\* given the winner's identity through OnNewLeader.
C2_CreateRaceHasOneWinner ==
    [][/\ Cardinality(hist'.createOK) <= 1
       /\ hist'.createFailed # {} => hist'.createOK # {}
       /\ \A w \in hist.createOK, l \in hist.createFailed :
             /\ w # l
             /\ (Leading(w) /\ ~cancelled[w] /\ ~cancelled[l]) =>
                   /\ state[l] = "Acquiring"
                   /\ \/ state'[l] = "Acquiring"
                      \/ cancelled'[l] /\ state'[l] = "Stopped"
                   /\ observed[l] = record.version => reported[l] = Id(w)]_vars

\* the loser has seen the winner, which has renewed since it won
C2_Witness ==
    \E w \in hist.createOK, l \in hist.createFailed :
        /\ Leading(w) /\ ~cancelled[w] /\ lastRenew[w] >= 2
        /\ state[l] = "Acquiring" /\ ~cancelled[l]
        /\ Id(l) # Id(w)
        /\ observed[l] = record.version
        /\ reported[l] = Id(w)
        /\ record.HolderIdentity = Id(w)

-----------------------------------------------------------------------------
(* Properties of a leader under a store outage (checked under SpecOutage    *)
(* and SpecOutageLive)                                                      *)

\* OnStoppedLeading fires in this step
StoppedLeadingFires == calls'[1].stopped > calls[1].stopped

\* the instants within RenewDeadline of the last successful renewal at which
\* the client retries
RetriesInWindow ==
    { t \in (lastRenew[1] + 1)..(lastRenew[1] + ret.RenewDeadline) :
          (t - lastRenew[1]) % ret.RetryPeriod = 0 }

\* the store is unreachable at every retry the client makes from its first
\* acquisition until RenewDeadline later
OutageCoversWindow ==
    \A t \in 1..ret.RenewDeadline : t % ret.RetryPeriod = 0 => InOutage(t)

\* C3 as stated: OnStoppedLeading is never called when the store is reachable
\* again before RenewDeadline has elapsed since the last successful renewal.
C3_Original_ShortOutageNeverStops ==
    [][StoppedLeadingFires =>
          outage.start + outage.len >= lastRenew[1] + ret.RenewDeadline]_vars

\* C3: for a Leading client that is not cancelled, OnStoppedLeading is
\* called at most once, and only when RenewDeadline has elapsed since the
\* last successful renewal and the store was unreachable at every retry made
\* in that time (retries are RetryPeriod apart, so a store that comes back
\* less than RetryPeriod before the deadline can be too late); a client
\* never stays Leading past the deadline, and when the store is unreachable
\* at every retry within RenewDeadline, OnStoppedLeading is called.
C3_StopsOnlyAfterDeadlineOfFailedRetries ==
    /\ [][/\ calls'[1].stopped <= 1
          /\ state'[1] = "Leading" => now' <= lastRenew'[1] + ret.RenewDeadline
          /\ StoppedLeadingFires =>
                /\ state[1] = "Leading"
                /\ now = lastRenew[1] + ret.RenewDeadline
                /\ \A t \in RetriesInWindow : InOutage(t)]_vars
    /\ OutageCoversWindow => <>(calls[1].stopped = 1)

\* the store came back before the deadline, too late for the last retry
C3_Witness ==
    /\ calls[1].stopped = 1
    /\ state[1] = "Stopped"
    /\ now = ret.RenewDeadline
    /\ outage.start + outage.len < ret.RenewDeadline
    /\ outage.len > ret.RetryPeriod

-----------------------------------------------------------------------------
(* Properties of cancellation (checked under Spec)                          *)

\* the release a cancelled leader has outstanding
Releases(p) == { m \in Requests(p) : m.kind = "release" }

\* a cancelled leader completes Leading -> Stopped in this step
CancelledLeaderStops(p) ==
    state[p] = "Leading" /\ cancelled[p] /\ state'[p] = "Stopped"

\* C5 as stated: with ReleaseOnCancel, a cancelled Leading client has cleared
\* the lease record by the time it reaches Stopped.
C5_Original_RecordClearedAtStopped ==
    [][\A p \in Procs :
          (lec[p].ReleaseOnCancel /\ CancelledLeaderStops(p)) =>
              record'.HolderIdentity # Id(p)]_vars

\* C5: the constructor always sets ReleaseOnCancel, so cancelling a Leading
\* client sends one conditional release before the client reaches Stopped;
\* when the store applies it, the record has no holder and any acquirer may
\* take it at once, without waiting for LeaseDuration to pass, and an
\* acquirer that reads the cleared record sends its update on that retry.
\* A release the store does not apply leaves the record as it was.
C5_CancelReleasesBeforeStopped ==
    [][\A p \in Procs :
          /\ lec[p].ReleaseOnCancel
          /\ (state[p] = "Leading" /\ ~cancelled[p] /\ cancelled'[p]) =>
                /\ state'[p] = "Leading"
                /\ \E m \in net' : /\ m.from = p
                                   /\ m.kind = "release"
                                   /\ m.resp = "pending"
                                   /\ m.rec.HolderIdentity = << >>
          /\ \A m \in Releases(p) :
                (m.resp = "pending" /\ m \notin net' /\ state'[p] = "Leading") =>
                    \/ /\ [m EXCEPT !.resp = "ok", !.rec = record'] \in net'
                       /\ record'.HolderIdentity = << >>
                       /\ \A q \in Procs : MayAcquire(q, record', now')
                    \/ /\ \E e \in {"Unavailable", "VersionConflict"} :
                             [m EXCEPT !.resp = e, !.rec = record'] \in net'
                             \/ [m EXCEPT !.resp = e] \in net'
                       /\ record' = record
          /\ (CancelledLeaderStops(p) /\ \E m \in Releases(p) : m.resp = "ok") =>
                record'.HolderIdentity # Id(p)
          /\ \A m \in Requests(p) :
                (/\ state[p] = "Acquiring" /\ m.kind = "get" /\ m.resp = "ok"
                 /\ m.rec.HolderIdentity = << >> /\ m \notin net'
                 /\ state'[p] = "Acquiring") =>
                    \E u \in net' : u.from = p /\ u.kind = "update"]_vars

\* a waiting acquirer leads after a cancelled leader's release, before the
\* released lease would have expired
C5_Witness ==
    \E p, q \in Procs :
        /\ p # q
        /\ cancelled[p] /\ state[p] = "Stopped" /\ calls[p].stopped = 1
        /\ Leading(q) /\ ~cancelled[q]
        /\ record.HolderIdentity = Id(q)
        /\ now <= lec[p].LeaseDuration

-----------------------------------------------------------------------------
(* Properties of the callbacks (checked under SpecLifecycle)                *)

\* C6: once OnStoppedLeading has fired for an attempt, no leader-only action
\* of that attempt executes: the callback the constructor installs ends the
\* process, so the leader-only logic has stopped with it.
C6_NoLeaderWorkAfterStopped ==
    \A p \in Procs :
        /\ work[p] # "afterStopped"
        /\ calls[p].stopped > 0 => ~alive[p] /\ ~ENABLED LeaderWork(p)

\* leader-only logic has run, and OnStoppedLeading has fired since
C6_Witness ==
    /\ calls[1].started = 1
    /\ work[1] = "leading"
    /\ calls[1].stopped = 1
    /\ state[1] = "Stopped"

-----------------------------------------------------------------------------
(* Properties of namespace and name resolution, the constructor and the     *)
(* caller's value (checked under SpecDefaulting unless said otherwise)      *)

\* t is s without its leading and trailing white space
IsTrimOf(t, s) ==
    \E i \in 1..(Len(s) + 1), j \in 0..Len(s) :
        /\ \A k \in 1..(i - 1) : IsSpace(s[k])
        /\ \A k \in (j + 1)..Len(s) : IsSpace(s[k])
        /\ t = SubSeq(s, i, j)
        /\ t # << >> => ~IsSpace(t[1]) /\ ~IsSpace(t[Len(t)])

\* C11: the namespace LeaderElectionDefaulting resolves is the input's when
\* that is not empty; otherwise the fallback argument when that is not empty;
\* otherwise the trimmed contents of the namespace file when it is readable
\* and they are not empty; otherwise empty.  The file is read only when the
\* input's namespace and the fallback argument are both empty.
C11_NamespacePrecedence ==
    called = "LeaderElectionDefaulting" =>
        /\ config.Namespace # << >> => ret.Namespace = config.Namespace
        /\ (config.Namespace = << >> /\ defaultNamespace # << >>) =>
               ret.Namespace = defaultNamespace
        /\ (config.Namespace = << >> /\ defaultNamespace = << >>) =>
               IF nsFile.ok /\ ~IsTrimOf(<< >>, nsFile.data)
               THEN IsTrimOf(ret.Namespace, nsFile.data) /\ ret.Namespace # << >>
               ELSE ret.Namespace = << >>
        /\ fileRead <=> (config.Namespace = << >> /\ defaultNamespace = << >>)

\* each of the four sources has decided a resolution
C11_Witness ==
    /\ called = "LeaderElectionDefaulting"
    /\ config.Namespace = << >>
    /\ defaultNamespace = << >>
    /\ nsFile = [ok |-> TRUE, data |-> <<" ", "f", "\n">>]
    /\ ret.Namespace = <<"f">>
    /\ fileRead

\* C12 (under SpecConstructor): when the resolved Namespace or the resolved
\* Name is empty, ToConfigMapLeaderElection returns an error and the empty
\* config, with no lock in it, and no election attempt starts; it returns a
\* usable config (no error, a lock on the resolved namespace and name, the
\* resolved timings) only when both are non-empty.  Defaulting always
\* returns a config, so one with an empty namespace or name reaches the
\* constructor.
C12_ConstructorRejectsEmptyNamespaceOrName ==
    \A p \in Procs :
        ctor[p].done =>
            /\ (ret.Namespace = << >> \/ ret.Name = << >>) =>
                   /\ ctor[p].err # ""
                   /\ lec[p] = EmptyLeaderElectionConfig
                   /\ state[p] = "Unacquired"
            /\ ctor[p].err # "" =>
                   lec[p] = EmptyLeaderElectionConfig /\ state[p] = "Unacquired"
            /\ ctor[p].err = "" =>
                   /\ ret.Namespace # << >> /\ ret.Name # << >>
                   /\ lec[p].Lock.Namespace = ret.Namespace
                   /\ lec[p].Lock.Name = ret.Name
                   /\ lec[p].Lock.Identity # << >>
                   /\ lec[p].LeaseDuration = ret.LeaseDuration
                   /\ lec[p].RenewDeadline = ret.RenewDeadline
                   /\ lec[p].RetryPeriod = ret.RetryPeriod

\* defaulting resolved a namespace and no name, and the constructor
\* rejected the config in both processes
C12_Witness ==
    /\ called = "LeaderElectionDefaulting"
    /\ ret.Namespace # << >> /\ ret.Name = << >>
    /\ ctor[1].done /\ ctor[1].err = "name may not be empty"
    /\ ctor[2].done /\ ctor[2].err = "name may not be empty"
    /\ state = [p \in Procs |-> "Unacquired"]

\* process p holds a config the constructor returned without error
Contends(p) == ctor[p].done /\ ctor[p].err = ""

\* C13 as stated (under SpecConstructor): the identity of each contending
\* process is non-empty and differs from that of every other, whether it was
\* supplied by the caller or generated.
C13_Original_IdentitiesAlwaysDistinct ==
    \A p, q \in Procs :
        (Contends(p) /\ Contends(q) /\ p # q) =>
            Id(p) # << >> /\ Id(p) # Id(q)

\* C13 (under SpecConstructor): the identity of each contending process is
\* non-empty; an identity the caller supplied is used as given; a generated
\* one is the hostname, "_" and the unique suffix, or the suffix alone when
\* the hostname cannot be read; and two processes have different identities
\* unless their callers supplied the same one.
C13_IdentitiesDistinctUnlessSuppliedEqual ==
    \A p, q \in Procs :
        Contends(p) =>
            /\ Id(p) # << >>
            /\ ctor[p].identity # << >> => Id(p) = ctor[p].identity
            /\ ctor[p].identity = << >> =>
                  /\ Len(Id(p)) = IF ctor[p].hostOK THEN 4 ELSE 2
                  /\ SubSeq(Id(p), Len(Id(p)) - 1, Len(Id(p))) = NewUUID(p)
                  /\ ctor[p].hostOK => SubSeq(Id(p), 1, 2) = <<"h", "_">>
            /\ (/\ Contends(q) /\ p # q
                /\ \/ ctor[p].identity = << >>
                   \/ ctor[q].identity = << >>
                   \/ ctor[p].identity # ctor[q].identity) =>
                  Id(p) # Id(q)

\* two processes on one host, both with a generated identity
C13_Witness ==
    /\ Contends(1) /\ Contends(2)
    /\ ctor[1].identity = << >> /\ ctor[2].identity = << >>
    /\ ctor[1].hostOK /\ ctor[2].hostOK
    /\ Id(1) = <<"h", "_", "u", "1">>
    /\ Id(2) = <<"h", "_", "u", "2">>

C19_SNOConfigSetsTimingsOnly ==
    called = "LeaderElectionSNOConfig" =>
        /\ ret.LeaseDuration = 270
        /\ ret.RenewDeadline = 240
        /\ ret.RetryPeriod = 60
        /\ ret.Namespace = config.Namespace
        /\ ret.Name = config.Name
        /\ ret.Disable = config.Disable
        /\ ~fileRead

\* explicit non-zero timings were replaced, and the empty namespace and name
\* were left empty although fallbacks were at hand
C19_Witness ==
    /\ called = "LeaderElectionSNOConfig"
    /\ config.LeaseDuration = 300 /\ config.RenewDeadline = 120
    /\ config.RetryPeriod = 10
    /\ config.Namespace = << >> /\ config.Name = << >>
    /\ defaultNamespace # << >> /\ defaultName # << >>
    /\ ret.LeaseDuration = 270 /\ ret.Namespace = << >> /\ ret.Name = << >>

-----------------------------------------------------------------------------
(* Properties of the controller command (checked under SpecCommand)        *)

\* Config() has returned
ConfigRead == called # "unread"

-----------------------------------------------------------------------------
(* Properties of the scheduler and the callbacks (checked under Spec)       *)

\* the operations of p outstanding after the step
RequestsAfter(p) == { m \in net' : m.from = p }

\* C16: within one election attempt at most one store operation (get,
\* create, update or release) is outstanding at any time; an operation still
\* outstanding when RenewDeadline has run out since the last successful
\* renewal never renews the lease: it is abandoned, and the client issues no
\* further acquisition or renewal.
C16_OneOutstandingOperation ==
    [][\A p \in Procs :
          /\ Cardinality(Requests(p)) <= 1
          /\ Cardinality(RequestsAfter(p)) <= 1
          /\ (state[p] = "Leading" /\ HasRequest(p) /\ now > Deadline(p)) =>
                /\ state'[p] = "Stopped" \/ lastRenew'[p] = lastRenew[p]
                /\ state'[p] = "Stopped" => RequestsAfter(p) = {}
                /\ \A m \in RequestsAfter(p) \ Requests(p) :
                      m.resp = "pending" => m.kind = "release"]_vars

\* a renewal is outstanding past the deadline
C16_Witness ==
    \E p \in Procs :
        /\ state[p] = "Leading" /\ ~cancelled[p]
        /\ now > Deadline(p)
        /\ \E m \in Requests(p) : m.kind = "update"

\* C17: in every election attempt OnStartedLeading fires at most once,
\* exactly on the Acquiring -> Leading transition; OnStoppedLeading fires at
\* most once, exactly on a Leading -> Stopped transition, so never before
\* OnStartedLeading; an attempt cancelled while Acquiring fires neither; and
\* once Stopped is reached the attempt makes no further transition, fires no
\* callback and has no operation outstanding.
C17_CallbacksOrdered ==
    [][\A p \in Procs :
          /\ calls'[p].started <= 1
          /\ calls'[p].stopped <= calls'[p].started
          /\ calls'[p].started > calls[p].started <=>
                (state[p] = "Acquiring" /\ state'[p] = "Leading")
          /\ calls'[p].stopped > calls[p].stopped <=>
                (state[p] = "Leading" /\ state'[p] = "Stopped")
          /\ state'[p] = "Leading" => state[p] \in {"Acquiring", "Leading"}
          /\ (state[p] = "Acquiring" /\ state'[p] = "Stopped") =>
                calls'[p] = calls[p] /\ cancelled'[p]
          /\ state[p] = "Stopped" =>
                /\ state'[p] = "Stopped"
                /\ calls'[p] = calls[p]
                /\ RequestsAfter(p) = {}]_vars

\* one attempt was cancelled while Acquiring and fired nothing; the other
\* led and stopped, and fired each callback once
C17_Witness ==
    \E p, q \in Procs :
        /\ state[p] = "Stopped" /\ cancelled[p]
        /\ calls[p] = [started |-> 0, stopped |-> 0]
        /\ state[q] = "Stopped"
        /\ calls[q] = [started |-> 1, stopped |-> 1]
        /\ now > 0

-----------------------------------------------------------------------------
(* Properties of failover (checked under SpecFailover)                      *)

\* the record is still held by p, which has stopped without releasing it,
\* and q is waiting for it
WaitsForStoppedLeader(p, q) ==
    /\ ~alive[p] /\ record.HolderIdentity = Id(p)
    /\ alive[q] /\ state[q] = "Acquiring"

\* C18: with the standard profile and a reachable store, when the leader
\* stops renewing without releasing the lease, a client that is Acquiring
\* is so no later than LeaseDuration + RetryPeriod = 163 s after the leader's
\* last successful renewal, and it does become Leading.
C18_FailoverWithin163 ==
    /\ [](\A p, q \in Procs :
             WaitsForStoppedLeader(p, q) => now <= record.RenewTime + 163)
    /\ (\E p \in Procs : ~alive[p]) ~> (\E q \in Procs : alive[q] /\ Leading(q))

\* the worst case: the waiting client's retry fell on the instant the lease
\* was about to expire, and its next one comes 163 s after the last renewal
C18_Witness ==
    \E p, q \in Procs :
        /\ WaitsForStoppedLeader(p, q)
        /\ now = record.RenewTime + 163
        /\ ret.LeaseDuration + ret.RetryPeriod = 163

-----------------------------------------------------------------------------
(* Properties of the static pod fallback controller (checked under SpecSync) *)

\* a step in which the cluster stays as it is: a run of sync
SyncRuns == sp'.pods = sp.pods /\ sp'.monitor = sp.monitor

\* some pod matching the selector carries the FallbackForRevision annotation
FallbackAnnotated ==
    \E i \in PodIndexes :
        /\ sp.pods[i].matches
        /\ "FallbackForRevision" \in DOMAIN sp.pods[i].Annotations

\* C20: a run of sync that returns no error has applied a
\* StaticPodFallbackRevisionDegraded condition whose status is True exactly
\* when the startup monitor is enabled and a pod matching the selector
\* carries FallbackForRevision, and False otherwise; a run that fails on the
\* monitor check or on the pod listing applies nothing and leaves the
\* operator status as it was.
C20_SyncAppliesFallbackCondition ==
    [][SyncRuns =>
        /\ sp'.err = "" =>
              /\ sp'.applied
              /\ sp'.status.Type = "StaticPodFallbackRevisionDegraded"
              /\ sp'.status.Status =
                    IF sp.monitor.enabled /\ FallbackAnnotated
                    THEN "True" ELSE "False"
        /\ sp.monitor.err # "" => sp'.err = "monitor"
        /\ sp'.err \in {"monitor", "list"} =>
              /\ ~sp'.applied
              /\ sp'.status = sp.status]_vars

\* a sync found the condition True and applied False: the monitor is on, and
\* the matching pod no longer carries the annotation
C20_Witness ==
    /\ ~sp.none
    /\ sp.before = "True"
    /\ sp.status.Status = "False"
    /\ sp.err = "" /\ sp.applied
    /\ sp.monitor = [enabled |-> TRUE, err |-> ""]
    /\ \E i \in PodIndexes : sp.pods[i].matches
    /\ ~FallbackAnnotated

=============================================================================
